---- MODULE Spec2Model ----
(***************************************************************************)
(* Delayed summed variable (delayedSummedVariable.py).                     *)
(*                                                                         *)
(* Simulation(nb_neurons, simulation_time) builds an input group G whose   *)
(* variable v grows by 0.4 per millisecond, a circular buffer v_buffer of  *)
(* past values of v, an output group H with the summed variable I, and an  *)
(* all-to-all Synapses object S with one integer delay_step per synapse.   *)
(* run() then executes, once per time step of dt = 1 ms, every object of   *)
(* the network in the order of its (when, order, name) key.                *)
(*                                                                         *)
(* Values of v are taken in exact arithmetic, as multiples of 0.1; the     *)
(* model stores them in tenths (0.4 is 4, the threshold 4.0 is 40).  In    *)
(* double precision ten increments of 0.4 give 3.9999999999999996 and      *)
(* eleven give 4.3999999999999995, so v > 4.0 first holds after the        *)
(* eleventh increment there as well.                                       *)
(***************************************************************************)
EXTENDS Integers, Sequences, FiniteSets

\* ---------------------------------------------------------------- bounds
MaxNeurons == 2      \* nb_neurons is drawn from 0..MaxNeurons
MaxDelay   == 2      \* sampled delays are drawn from 1..MaxDelay (<= delay_max - 1)
MaxTicks   == 22     \* longest run, in time steps

\* ------------------------------------------------------ program constants
delay_max   == 10    \* line 26
dv_per_step == 4     \* dv/dt = 0.4/ms with dt = 1 ms, in tenths
v_threshold == 40    \* threshold='v > 4.0', in tenths
v_reset     == 0     \* reset='v = 0.0'

VARIABLES
    phase,           \* "init", "running", "done" or "failed"
    nb_neurons,      \* argument of Simulation
    n_steps,         \* simulation_time / dt
    delay_step,      \* S.delay_step, one per synapse
    w,               \* S.w, one per synapse
    v_delayed,       \* S.v_delayed, one per synapse
    buffer_size,
    buffer_pointer,  \* G.buffer_pointer (shared)
    v_buffer,        \* G.v_buffer[row][neuron]
    v,               \* G.v
    I,               \* H.I
    spikes,          \* neurons of G found above threshold in this time step
    pc,              \* index into Schedule of the next object to run
    step_count,      \* number of completed time steps
    vtrace,          \* history: vtrace[k+1] is the value of v stored in time step k
    ran              \* history: names of the objects run so far in this time step

vars == <<phase, nb_neurons, n_steps, delay_step, w, v_delayed, buffer_size,
          buffer_pointer, v_buffer, v, I, spikes, pc, step_count, vtrace, ran>>

Min(a, b) == IF a <= b THEN a ELSE b

\* max(delays) of line 35
MaxOf(S) == CHOOSE m \in S : \A x \in S : x <= m

\* buffer_size = 1 + max(delays)
BufferSizeWithoutSpare(delays) == MaxOf({delays[k] : k \in DOMAIN delays})
BufferSizeFor(delays) == 1 + MaxOf({delays[k] : k \in DOMAIN delays})

\* randint(1, delay_max) is numpy.random.randint: low inclusive, high exclusive
DelayValuesFromZero == 0 .. Min(MaxDelay, delay_max - 1)
DelayValues == 1 .. Min(MaxDelay, delay_max - 1)

\* run lengths tried (simulation_time / dt)
RunLengths == {0, 1, MaxTicks}

Neurons(n) == 0 .. (n - 1)

\* delays = [... for i in range(nb_neurons**2)]; S.connect() creates the
\* nb_neurons**2 synapses source-major
Synapses(n) == 0 .. (n * n - 1)
SourceOf(k, n) == k \div n
TargetOf(k, n) == k % n

\* ------------------------------------------------------ network schedule
\* the slots of a time step, in order
ScheduleSlots == <<"start", "groups", "thresholds", "synapses", "resets", "end">>

SlotIndex(s) == CHOOSE k \in 1..Len(ScheduleSlots) : ScheduleSlots[k] = s

\* The objects of the network that change state, each with the name the
\* library gives it and the slot and order it runs in.  Both run_regularly
\* calls pass no when= and no order=, so they take the defaults 'start' and 0;
\* the summed-variable update of S runs in 'groups' with order -1, the state
\* update of G in 'groups', its thresholder in 'thresholds' and its resetter
\* in 'resets', all with order 0.
buffer_updater_after_integration ==
    [name |-> "neurongroup_run_regularly", when |-> "groups", order |-> 1]
get_new_v_delayed_first ==
    [name |-> "synapses_run_regularly", when |-> "start", order |-> -1]
summed_updater_order_zero ==
    [name |-> "synapses_summed_variable_I_post", when |-> "groups", order |-> 0]
buffer_updater    == [name |-> "neurongroup_run_regularly",       when |-> "start",      order |-> 0]
get_new_v_delayed == [name |-> "synapses_run_regularly",          when |-> "start",      order |-> 0]
summed_updater    == [name |-> "synapses_summed_variable_I_post", when |-> "groups",     order |-> -1]
state_updater_first ==
    [name |-> "neurongroup_stateupdater", when |-> "start", order |-> -1]
state_updater     == [name |-> "neurongroup_stateupdater",        when |-> "groups",     order |-> 0]
thresholder       == [name |-> "neurongroup_thresholder",         when |-> "thresholds", order |-> 0]
resetter          == [name |-> "neurongroup_resetter",            when |-> "resets",     order |-> 0]

NetworkObjects == {buffer_updater, get_new_v_delayed, summed_updater,
                   state_updater, thresholder, resetter}

\* the names in lexicographic order (string comparison)
NamesInOrder == <<"neurongroup_resetter", "neurongroup_run_regularly",
                  "neurongroup_stateupdater", "neurongroup_thresholder",
                  "synapses_run_regularly", "synapses_summed_variable_I_post">>

NameRank(nm) == CHOOSE k \in 1..Len(NamesInOrder) : NamesInOrder[k] = nm

\* objects run sorted by (slot of when, order, name)
RunsBefore(a, b) ==
    \/ SlotIndex(a.when) < SlotIndex(b.when)
    \/ /\ SlotIndex(a.when) = SlotIndex(b.when)
       /\ \/ a.order < b.order
          \/ a.order = b.order /\ NameRank(a.name) < NameRank(b.name)

Schedule ==
    [k \in 1..Cardinality(NetworkObjects) |->
        CHOOSE o \in NetworkObjects :
            Cardinality({p \in NetworkObjects : RunsBefore(p, o)}) = k - 1]

Current == Schedule[pc]

\* ------------------------------------------------------------ operations
\* G.variables.add_array('v_buffer', size=(buffer_size, len(G))): zeros
InitBufferRowOnes(n) == [i \in Neurons(n) |-> 1]
InitBufferRow(n) == [i \in Neurons(n) |-> 0]

\* buffer_pointer = (buffer_pointer + 1) % buffer_size
AdvancePointerBackwards(ptr, size) == (ptr + size - 1) % size
AdvancePointer(ptr, size) == (ptr + 1) % size

\* S.w is declared and never assigned: it keeps the zeros it is created with
InitWeightsOnes(n) == [k \in Synapses(n) |-> 1]
InitWeights(n) == [k \in Synapses(n) |-> 0]

\* update_v_buffer: v_buffer[buffer_pointer, :] = v
update_v_buffer_all_rows(val, buf, ptr) == [r \in DOMAIN buf |-> val]
update_v_buffer(val, buf, ptr) == [buf EXCEPT ![ptr] = val]

\* the row get_v_delayed reads: (buffer_pointer - delay_step) % buffer_size
ReadRowOneAhead(ptr, size, d) == (ptr - d + 1) % size
ReadRow(ptr, size, d) == (ptr - d) % size

\* get_v_delayed: v_buffer[(buffer_pointer - delay_step) % buffer_size, i]
get_v_delayed_off_by_one(buf, ptr, size, i, d) == buf[(ptr - d + 1) % size][i]
get_v_delayed(buf, ptr, size, i, d) == buf[ReadRow(ptr, size, d)][i]

RECURSIVE SumOver(_, _)
SumOver(S, f) ==
    IF S = {} THEN 0
    ELSE LET k == CHOOSE x \in S : TRUE
         IN f[k] + SumOver(S \ {k}, f)

\* I_post = v_delayed*w : 1 (summed)
SummedIUnweighted(j, n, vd, wt) ==
    SumOver({k \in Synapses(n) : TargetOf(k, n) = j},
            [k \in Synapses(n) |-> vd[k]])
SummedI(j, n, vd, wt) ==
    SumOver({k \in Synapses(n) : TargetOf(k, n) = j},
            [k \in Synapses(n) |-> vd[k] * wt[k]])

\* threshold='v > 4.0'
AtOrAboveThreshold(x) == x >= v_threshold
AboveThreshold(x) == x > v_threshold

Init ==
    /\ phase = "init"
    /\ nb_neurons = 0
    /\ n_steps = 0
    /\ delay_step = << >>
    /\ w = << >>
    /\ v_delayed = << >>
    /\ buffer_size = 0
    /\ buffer_pointer = 0
    /\ v_buffer = << >>
    /\ v = << >>
    /\ I = << >>
    /\ spikes = {}
    /\ pc = 1
    /\ step_count = 0
    /\ vtrace = << >>
    /\ ran = << >>

\* Simulation(), lines 19-75, when delays is not empty: the network is built
Construct ==
    /\ phase = "init"
    /\ \E n \in 0..MaxNeurons, steps \in RunLengths :
       \E delays \in [Synapses(n) -> DelayValues] :
          /\ DOMAIN delays # {}
          /\ nb_neurons' = n
          /\ n_steps' = steps
          /\ delay_step' = delays
          /\ buffer_size' = BufferSizeFor(delays)
          /\ v_buffer' = [r \in 0 .. (BufferSizeFor(delays) - 1) |-> InitBufferRow(n)]
          /\ w' = InitWeights(n)
          /\ v_delayed' = [k \in Synapses(n) |-> 0]
          /\ v' = [i \in Neurons(n) |-> 0]
          /\ I' = [j \in Neurons(n) |-> 0]
    /\ buffer_pointer' = 0
    /\ spikes' = {}
    /\ phase' = "running"
    /\ pc' = 1
    /\ step_count' = 0
    /\ UNCHANGED <<vtrace, ran>>

\* Simulation() when delays is empty: max(delays) raises, nothing is run
ConstructFails ==
    /\ phase = "init"
    /\ \E n \in 0..MaxNeurons, steps \in RunLengths :
       \E delays \in [Synapses(n) -> DelayValues] :
          /\ DOMAIN delays = {}
          /\ nb_neurons' = n
          /\ n_steps' = steps
    /\ phase' = "failed"
    /\ UNCHANGED <<delay_step, w, v_delayed, buffer_size, buffer_pointer, v_buffer,
                   v, I, spikes, pc, step_count, vtrace, ran>>

InTickOneMore == phase = "running" /\ step_count <= n_steps /\ pc <= Len(Schedule)
InTick == phase = "running" /\ step_count < n_steps /\ pc <= Len(Schedule)

Ran(obj) == /\ pc' = pc + 1
            /\ ran' = Append(ran, obj.name)

\* buffer_updater: advance the pointer, then store v in that row
BufferWrite ==
    /\ InTick /\ Current = buffer_updater
    /\ buffer_pointer' = AdvancePointer(buffer_pointer, buffer_size)
    /\ v_buffer' = update_v_buffer(v, v_buffer, buffer_pointer')
    /\ vtrace' = Append(vtrace, v)
    /\ Ran(buffer_updater)
    /\ UNCHANGED <<phase, nb_neurons, n_steps, delay_step, w, v_delayed, buffer_size,
                   v, I, spikes, step_count>>

\* get_new_v_delayed: every synapse fetches its delayed value
DelayedRead ==
    /\ InTick /\ Current = get_new_v_delayed
    /\ v_delayed' = [k \in Synapses(nb_neurons) |->
                        get_v_delayed(v_buffer, buffer_pointer, buffer_size,
                                      SourceOf(k, nb_neurons), delay_step[k])]
    /\ Ran(get_new_v_delayed)
    /\ UNCHANGED <<phase, nb_neurons, n_steps, delay_step, w, buffer_size, buffer_pointer,
                   v_buffer, v, I, spikes, step_count, vtrace>>

\* summed variable updater of S: I of every target is recomputed
Aggregate ==
    /\ InTick /\ Current = summed_updater
    /\ I' = [j \in Neurons(nb_neurons) |-> SummedI(j, nb_neurons, v_delayed, w)]
    /\ Ran(summed_updater)
    /\ UNCHANGED <<phase, nb_neurons, n_steps, delay_step, w, v_delayed, buffer_size,
                   buffer_pointer, v_buffer, v, spikes, step_count, vtrace>>

\* state updater of G: one Euler step of dv/dt = 0.4/ms
StateUpdate ==
    /\ InTick /\ Current = state_updater
    /\ v' = [i \in Neurons(nb_neurons) |-> v[i] + dv_per_step]
    /\ Ran(state_updater)
    /\ UNCHANGED <<phase, nb_neurons, n_steps, delay_step, w, v_delayed, buffer_size,
                   buffer_pointer, v_buffer, I, spikes, step_count, vtrace>>

\* thresholder of G
Threshold ==
    /\ InTick /\ Current = thresholder
    /\ spikes' = {i \in Neurons(nb_neurons) : AboveThreshold(v[i])}
    /\ Ran(thresholder)
    /\ UNCHANGED <<phase, nb_neurons, n_steps, delay_step, w, v_delayed, buffer_size,
                   buffer_pointer, v_buffer, v, I, step_count, vtrace>>

\* resetter of G
Reset ==
    /\ InTick /\ Current = resetter
    /\ v' = [i \in Neurons(nb_neurons) |-> IF i \in spikes THEN v_reset ELSE v[i]]
    /\ Ran(resetter)
    /\ UNCHANGED <<phase, nb_neurons, n_steps, delay_step, w, v_delayed, buffer_size,
                   buffer_pointer, v_buffer, I, spikes, step_count, vtrace>>

\* end of the time step: the clock advances
AdvanceClock ==
    /\ phase = "running" /\ step_count < n_steps /\ pc = Len(Schedule) + 1
    /\ step_count' = step_count + 1
    /\ pc' = 1
    /\ ran' = << >>
    /\ UNCHANGED <<phase, nb_neurons, n_steps, delay_step, w, v_delayed, buffer_size,
                   buffer_pointer, v_buffer, v, I, spikes, vtrace>>

\* run() returns once simulation_time has elapsed
RunEnd ==
    /\ phase = "running" /\ step_count = n_steps
    /\ phase' = "done"
    /\ UNCHANGED <<nb_neurons, n_steps, delay_step, w, v_delayed, buffer_size,
                   buffer_pointer, v_buffer, v, I, spikes, pc, step_count, vtrace, ran>>

Next ==
    \/ Construct
    \/ ConstructFails
    \/ BufferWrite
    \/ DelayedRead
    \/ Aggregate
    \/ StateUpdate
    \/ Threshold
    \/ Reset
    \/ AdvanceClock
    \/ RunEnd

Spec == Init /\ [][Next]_vars

\* ---------------------------------------------------------------- claims
Built == phase \in {"running", "done"}

\* the object named nm has run in the current time step
HasRun(nm) == \E p \in 1..Len(ran) : ran[p] = nm

PositionInTick(nm) == CHOOSE p \in 1..Len(ran) : ran[p] = nm

TimesRun(nm) == Cardinality({p \in 1..Len(ran) : ran[p] = nm})

\* C1: exact delay law. For every synapse with source i and delay_step d, in
\* every time step t >= d the value fetched by get_v_delayed equals the value
\* of v of source i stored in time step t - d, and the synapse's contribution
\* to I is w times that value; this also holds long after the pointer has
\* wrapped around.
C1_ExactDelayLaw ==
    (Built /\ HasRun("synapses_run_regularly")) =>
        \A k \in Synapses(nb_neurons) :
            step_count >= delay_step[k] =>
                /\ v_delayed[k]
                     = vtrace[step_count - delay_step[k] + 1][SourceOf(k, nb_neurons)]
                /\ v_delayed[k] * w[k]
                     = w[k] * vtrace[step_count - delay_step[k] + 1][SourceOf(k, nb_neurons)]

C1_Witness ==
    /\ Built /\ HasRun("synapses_run_regularly")
    /\ step_count >= 5 * buffer_size
    /\ \E k \in Synapses(nb_neurons) :
          /\ delay_step[k] = MaxDelay
          /\ v_delayed[k] > 0
          /\ v_delayed[k] # v[SourceOf(k, nb_neurons)]

TickOrder == <<"neurongroup_run_regularly", "synapses_run_regularly",
               "synapses_summed_variable_I_post", "neurongroup_stateupdater",
               "neurongroup_thresholder", "neurongroup_resetter">>

C4_Aggregation ==
    (Built /\ HasRun("synapses_summed_variable_I_post")) =>
        \A j \in Neurons(nb_neurons) :
            I[j] = SumOver({k \in Synapses(nb_neurons) : k % nb_neurons = j},
                           [k \in Synapses(nb_neurons) |-> w[k] * v_delayed[k]])

C4_Witness ==
    /\ Built /\ HasRun("synapses_summed_variable_I_post")
    /\ \E j \in Neurons(nb_neurons) :
          \E k1, k2 \in Synapses(nb_neurons) :
              /\ k1 # k2 /\ k1 % nb_neurons = j /\ k2 % nb_neurons = j
              /\ v_delayed[k1] > 0 /\ v_delayed[k2] > 0
              /\ v_delayed[k1] # v_delayed[k2]

\* C5: buffer_size is 1 + the largest delay_step, so every synapse has
\* 1 <= delay_step <= buffer_size - 1; neither changes after construction.
C5_BufferSize ==
    /\ [](Built =>
            /\ buffer_size = 1 + MaxOf({delay_step[k] : k \in Synapses(nb_neurons)})
            /\ \A k \in Synapses(nb_neurons) :
                  1 <= delay_step[k] /\ delay_step[k] <= buffer_size - 1)
    /\ [][Built => (buffer_size' = buffer_size /\ delay_step' = delay_step)]_vars

C5_Witness ==
    /\ Built /\ step_count >= 1
    /\ \E k1, k2 \in Synapses(nb_neurons) : delay_step[k1] < delay_step[k2]

\* C6: write before read. In every time step the buffer write happens once
\* and before the delayed read; the read sees the pointer and the row of
\* that time step's write.
C6_WriteBeforeRead ==
    (Built /\ HasRun("synapses_run_regularly")) =>
        /\ TimesRun("neurongroup_run_regularly") = 1
        /\ PositionInTick("neurongroup_run_regularly") < PositionInTick("synapses_run_regularly")
        /\ Len(vtrace) = step_count + 1
        /\ buffer_pointer = (step_count + 1) % buffer_size
        /\ v_buffer[buffer_pointer] = vtrace[step_count + 1]
        /\ \A k \in Synapses(nb_neurons) :
              v_delayed[k] = v_buffer[(buffer_pointer - delay_step[k]) % buffer_size]
                                     [SourceOf(k, nb_neurons)]

C6_Witness ==
    /\ Built /\ HasRun("synapses_run_regularly")
    /\ step_count >= buffer_size
    /\ \E i \in Neurons(nb_neurons) : v_buffer[buffer_pointer][i] > 0

\* C7: pre-start read. For a synapse with delay_step d, in every time step
\* t < d the delayed read returns the buffer's initial value 0, and the
\* synapse contributes 0.
C7_PreStartRead ==
    (Built /\ HasRun("synapses_run_regularly")) =>
        \A k \in Synapses(nb_neurons) :
            step_count < delay_step[k] =>
                (v_delayed[k] = 0 /\ v_delayed[k] * w[k] = 0)

C7_Witness ==
    /\ Built /\ HasRun("synapses_run_regularly")
    /\ step_count = 1
    /\ \E k \in Synapses(nb_neurons) : delay_step[k] > step_count /\ v_delayed[k] = 0
    /\ \E i \in Neurons(nb_neurons) : v_buffer[buffer_pointer][i] > 0

\* number of time steps from one reset of v to the next
Period == (v_threshold \div dv_per_step) + 1

\* C8: source trajectory. The value of v at the start of time step t (the
\* value stored in that time step) is 0, 0.4, ..., 4.0 for t = 0..10; v is
\* reset in the time step that starts with v = 4.0, is 0 at the start of the
\* next one, and the cycle repeats.
C8_Trajectory ==
    Built =>
        /\ Len(vtrace) > 0 =>
              \A i \in Neurons(nb_neurons) :
                  vtrace[Len(vtrace)][i] = dv_per_step * ((Len(vtrace) - 1) % Period)
        /\ ~HasRun("neurongroup_stateupdater") =>
              \A i \in Neurons(nb_neurons) : v[i] = dv_per_step * (step_count % Period)
        /\ HasRun("neurongroup_thresholder") =>
              spikes = IF step_count % Period = Period - 1
                       THEN Neurons(nb_neurons) ELSE {}
        /\ HasRun("neurongroup_resetter") =>
              \A i \in Neurons(nb_neurons) : v[i] = dv_per_step * ((step_count + 1) % Period)

C8_Witness ==
    /\ Built /\ step_count = 2 * Period - 1
    /\ HasRun("neurongroup_resetter")
    /\ \A i \in Neurons(nb_neurons) :
          /\ v[i] = v_reset
          /\ vtrace[Period][i] = v_threshold
          /\ vtrace[Period + 1][i] = 0
          /\ vtrace[2 * Period][i] = v_threshold

\* C9: construction fails, before any time step, exactly when no delay is
\* generated; no simulation runs with an empty synapse set or a delay_step
\* below 1.
C9_ConstructionFailure ==
    /\ (phase = "failed") <=> (phase # "init" /\ Synapses(nb_neurons) = {})
    /\ (phase = "failed") =>
          (step_count = 0 /\ pc = 1 /\ ran = << >> /\ vtrace = << >>)
    /\ Built =>
          /\ Synapses(nb_neurons) # {}
          /\ DOMAIN delay_step = Synapses(nb_neurons)
          /\ \A k \in Synapses(nb_neurons) : delay_step[k] >= 1

C9_Witness == phase = "failed" /\ nb_neurons = 0 /\ n_steps > 0

\* number of buffer writes so far
Writes == Len(vtrace)

\* C11: pointer invariant. buffer_pointer is always in 0 .. buffer_size - 1,
\* starts at 0, is changed once per time step, by the buffer write and by
\* nothing else, to (buffer_pointer + 1) mod buffer_size; after the k-th
\* write it is k mod buffer_size.
C11_Pointer ==
    Built =>
        /\ buffer_pointer \in 0 .. (buffer_size - 1)
        /\ buffer_pointer = Writes % buffer_size
        /\ Writes = step_count + (IF HasRun("neurongroup_run_regularly") THEN 1 ELSE 0)
        /\ TimesRun("neurongroup_run_regularly") <= 1

C11_Witness ==
    /\ Built /\ HasRun("neurongroup_run_regularly")
    /\ Writes > 2 * buffer_size
    /\ buffer_size = MaxDelay + 1
    /\ buffer_pointer = 0

\* C12: no premature overwrite. A row written in time step t is still in the
\* buffer, unchanged, in every time step up to t + (largest delay_step): the
\* row d rows behind the pointer holds the values of the d-th last write for
\* every d up to the largest delay_step.
C12_NoPrematureOverwrite ==
    Built =>
        \A d \in 0 .. MaxOf({delay_step[k] : k \in Synapses(nb_neurons)}) :
            d < Writes =>
                v_buffer[(buffer_pointer - d) % buffer_size] = vtrace[Writes - d]

C12_Witness ==
    /\ Built /\ Writes > 2 * buffer_size
    /\ buffer_size = MaxDelay + 1
    /\ \A d1, d2 \in 0 .. MaxDelay :
          d1 # d2 => v_buffer[(buffer_pointer - d1) % buffer_size]
                       # v_buffer[(buffer_pointer - d2) % buffer_size]

\* C13: no aliasing of the current time step. For every synapse the row read
\* differs from row buffer_pointer, the row written in the same time step; a
\* synapse with delay_step 1 reads the row written one time step earlier.
C13_NoAliasing ==
    Built =>
        \A k \in Synapses(nb_neurons) :
            /\ ReadRow(buffer_pointer, buffer_size, delay_step[k]) # buffer_pointer
            /\ (HasRun("synapses_run_regularly") /\ delay_step[k] = 1 /\ step_count >= 1) =>
                  /\ v_buffer[ReadRow(buffer_pointer, buffer_size, delay_step[k])]
                        = vtrace[step_count]
                  /\ v_delayed[k] = vtrace[step_count][SourceOf(k, nb_neurons)]

C13_Witness ==
    /\ Built /\ HasRun("synapses_run_regularly") /\ step_count >= buffer_size
    /\ \E k \in Synapses(nb_neurons) :
          /\ delay_step[k] = 1
          /\ v_delayed[k] # v_buffer[buffer_pointer][SourceOf(k, nb_neurons)]

\* C14: buffer frame condition. Only the buffer write changes v_buffer or
\* buffer_pointer, and it changes no row other than row buffer_pointer; the
\* delayed read, the aggregation, the intrinsic update and the reset leave
\* both unchanged.
C14_BufferFrame ==
    [][ (Built /\ (v_buffer' # v_buffer \/ buffer_pointer' # buffer_pointer)) =>
            /\ ran' = Append(ran, "neurongroup_run_regularly")
            /\ DOMAIN v_buffer' = DOMAIN v_buffer
            /\ \A r \in DOMAIN v_buffer :
                  r # buffer_pointer' => v_buffer'[r] = v_buffer[r] ]_vars

C14_Witness ==
    /\ Built /\ HasRun("neurongroup_resetter")
    /\ spikes # {}
    /\ \A i \in spikes : v[i] = v_reset /\ v_buffer[buffer_pointer][i] = v_threshold
    /\ \E r \in DOMAIN v_buffer : r # buffer_pointer /\ v_buffer[r] # v_buffer[buffer_pointer]

\* number of steps the run still has to take
StepsLeft ==
    (n_steps - step_count) * (Len(Schedule) + 1) + (Len(Schedule) + 1 - pc)
        + (IF phase = "running" THEN 1 ELSE 0)

\* C15: run termination. A run of simulation_time executes exactly
\* simulation_time / dt time steps: step_count starts at 0 and grows by
\* exactly 1 per time step, after all of the step's phases have run; the run
\* ends only between time steps, after the last of them; until then a next
\* step can always be taken and every step brings the end nearer, so the run
\* terminates.
C15_RunTermination ==
    /\ [](phase = "init" => step_count = 0)
    /\ [](phase = "done" =>
            /\ step_count = n_steps
            /\ Writes = n_steps
            /\ ran = << >>)
    /\ [](phase = "running" => (StepsLeft > 0 /\ ENABLED Next))
    /\ [][ /\ (step_count' # step_count) =>
                (step_count' = step_count + 1 /\ ran = TickOrder)
           /\ (phase' = "done" /\ phase # "done") =>
                (step_count = n_steps /\ ran = << >>)
           /\ (phase = "running") =>
                (StepsLeft' < StepsLeft /\ StepsLeft' >= 0) ]_vars

C15_Witness ==
    /\ phase = "done"
    /\ n_steps = MaxTicks
    /\ step_count = MaxTicks
    /\ Writes = MaxTicks

\* C16: S.w is never assigned, so every synapse keeps weight 0 and I of
\* every target is 0 in every time step, whatever the delays and the values
\* of v.
C16_ZeroWeights ==
    Built =>
        /\ \A k \in Synapses(nb_neurons) : w[k] = 0
        /\ \A j \in Neurons(nb_neurons) : I[j] = 0

C16_Witness ==
    /\ Built /\ HasRun("synapses_summed_variable_I_post")
    /\ \A k \in Synapses(nb_neurons) : v_delayed[k] > 0
    /\ \E k1, k2 \in Synapses(nb_neurons) : delay_step[k1] # delay_step[k2]
    /\ \A j \in Neurons(nb_neurons) : I[j] = 0

\* the values v takes at the start of a time step: 0, 0.4, ..., 4.0
StoredValues == {dv_per_step * m : m \in 0 .. (v_threshold \div dv_per_step)}

\* C17: every entry of v_buffer and every v_delayed value is one of
\* 0, 0.4, ..., 4.0; no value above the threshold is stored or delivered.
C17_StoredRange ==
    Built =>
        /\ \A r \in DOMAIN v_buffer : \A i \in Neurons(nb_neurons) :
              v_buffer[r][i] \in StoredValues /\ ~(v_buffer[r][i] > v_threshold)
        /\ \A k \in Synapses(nb_neurons) :
              v_delayed[k] \in StoredValues /\ ~(v_delayed[k] > v_threshold)

C17_Witness ==
    /\ Built /\ HasRun("neurongroup_thresholder") /\ ~HasRun("neurongroup_resetter")
    /\ \E i \in Neurons(nb_neurons) :
          v[i] > v_threshold /\ v_buffer[buffer_pointer][i] = v_threshold
    /\ \E k \in Synapses(nb_neurons) : v_delayed[k] = v_threshold - dv_per_step

====
